---- MODULE Spec2Model ----
(***************************************************************************)
(* Model of serve.py: an MCP gateway in front of a Weaviate cluster.       *)
(*                                                                         *)
(* State: the process environment (os.environ), how far module loading     *)
(* got, which of the two _connect definitions the global name is bound to, *)
(* the refresher's globals and threads, and the tool invocations in        *)
(* flight.  External calls (the Weaviate SDK, google-auth, the file        *)
(* system) are nondeterministic choices over their outcomes.               *)
(***************************************************************************)
EXTENDS Integers, Sequences, FiniteSets, TLC

VARIABLES
    runMode,        \* "main": python serve.py; "import": loaded as a module
    env,            \* os.environ, the part serve.py reads and writes
    loadPc,         \* position of module loading
    connectDef,     \* which def the global name _connect is bound to (1 or 2)
    started,        \* _VERTEX_REFRESH_THREAD_STARTED
    vertexHeaders,  \* _VERTEX_HEADERS
    starter,        \* callers of _maybe_start_vertex_oauth_refresher
    loop,           \* threads running _refresh_vertex_oauth_loop
    refreshGen,     \* tokens minted by the refresher so far
    inv,            \* tool invocations in flight
    mintCalls,      \* token-minting calls made while composing headers/connecting
    openConns       \* client sessions opened and not yet closed

vars == <<runMode, env, loadPc, connectDef, started, vertexHeaders, starter,
          loop, refreshGen, inv, mintCalls, openConns>>

----------------------------------------------------------------------------
(* Bounds *)

MaxMint == 2        \* connect-path mint calls recorded
MaxGen == 2         \* refresher mints that succeed
MaxFails == 3       \* consecutive refresher mint failures followed
MaxCallers == 1     \* callers of the starter besides module load
MaxRemaining == 900 \* largest remaining token lifetime tried, seconds

(* Program constants *)

DefaultSleep == 3300   \* 55 * 60
SafetyMargin == 300
FloorDelta == 300
BackoffSleep == 60

----------------------------------------------------------------------------
(* Values *)

Slots == {1}
LoadCaller == 0
Callers == 0..MaxCallers

ToolNames == {"get_config", "check_connection", "list_collections",
              "get_schema", "keyword_search", "semantic_search",
              "hybrid_search", "insert_image_vertex", "image_search_vertex",
              "diagnose_vertex"}
LocalTools == {"get_config", "diagnose_vertex"}
EmbedTools == {"insert_image_vertex", "image_search_vertex"}
CollTools == {"get_schema", "keyword_search", "semantic_search",
              "hybrid_search", "insert_image_vertex", "image_search_vertex"}

\* Collection names a caller may pass, and the ones the database holds.
CollectionNames == {"docs", "missing_collection"}
ExistingCollections == {"docs"}
NoColl == "-"

\* A credential value: where it comes from and, for minted tokens, which one.
Cred(src, n) == [src |-> src, n |-> n]
NoCred == Cred("none", 0)
StaticKey == Cred("VERTEX_APIKEY", 0)
DbKey == Cred("WEAVIATE_API_KEY", 0)

\* A header value: the bare credential, or f"Bearer {credential}".
Bare(c) == [scheme |-> "", cred |-> c]
Bearer(c) == [scheme |-> "Bearer", cred |-> c]

\* Python dicts keyed by header name.
EmptyDict == [k \in {} |-> Bare(NoCred)]
DictOf(keys, v) == [k \in keys |-> v]
Update(d, add) ==
    [k \in (DOMAIN d) \cup (DOMAIN add) |->
        IF k \in DOMAIN add THEN add[k] ELSE d[k]]
Get(d, k) == IF k \in DOMAIN d THEN d[k] ELSE Bare(NoCred)

RestKeyNames == {"X-Goog-Vertex-Api-Key", "X-Goog-Api-Key", "X-Palm-Api-Key",
                 "X-Goog-Studio-Api-Key"}
GrpcKeyNames == {"x-goog-vertex-api-key", "x-goog-api-key", "x-palm-api-key",
                 "x-goog-studio-api-key"}

\* The session's RPC metadata as the SDK builds it from Auth.api_key(key).
SessionMetadata == DictOf({"authorization"}, Bearer(DbKey))

----------------------------------------------------------------------------
(* Environment *)

\* Values tried for VERTEX_USE_OAUTH, and str.lower() on them.
OauthFlagValues == {"", "0", "1", "True"}
Lower(v) == CASE v = "True" -> "true"
              [] OTHER -> v
OauthOptIn(e) == Lower(e.useOauth) \in {"1", "true", "yes"}

\* gac: GOOGLE_APPLICATION_CREDENTIALS is unset, names no file, or names a file.
Environments ==
    [url : BOOLEAN, key : BOOLEAN, vertexApiKey : BOOLEAN, gacJson : BOOLEAN,
     gac : {"unset", "nofile", "file"}, useOauth : OauthFlagValues]

\* Outcomes of the external calls one operation makes.
Externals ==
    [write : BOOLEAN,                       \* open("/app/...", "w") succeeds
     mint : {"ok", "raise", "empty"},       \* creds.refresh / creds.token
     session : BOOLEAN,                     \* connect_to_weaviate_cloud succeeds
     shape : {"grpc_metadata", "_grpc_metadata", "none", "raises"}]

GetWeaviateUrlRaises(e) == ~e.url
GetWeaviateApiKeyRaises(e) == ~e.key

NoConn == [open |-> FALSE, rest |-> EmptyDict, meta |-> EmptyDict,
           base |-> EmptyDict, added |-> {}, def |-> 0]

\* What a call hands back: whether it raised and on what ("config": a
\* RuntimeError of the two getters, "auth": credential or minting code,
\* "session": the SDK's connect call), its value, the environment it leaves
\* behind and the number of mint calls it made.
Raised(e, m, why) ==
    [raised |-> TRUE, why |-> why, token |-> NoCred, rest |-> EmptyDict,
     grpc |-> EmptyDict, conn |-> NoConn, env |-> e, minted |-> m]
Returned(tok, rest, grpc, conn, e, m) ==
    [raised |-> FALSE, why |-> "none", token |-> tok, rest |-> rest, grpc |-> grpc,
     conn |-> conn, env |-> e, minted |-> m]

\* _mint_vertex_token_now: n is the number of the token a success mints.
MintVertexTokenNow(e, n, x) ==
    LET mustWrite == e.gacJson /\ e.gac = "unset"
        e1 == IF mustWrite THEN [e EXCEPT !.gac = "file"] ELSE e
    IN  IF mustWrite /\ ~x.write THEN Raised(e, 0, "auth")
        ELSE IF e1.gac = "unset" THEN Raised(e1, 0, "auth")
        ELSE IF e1.gac = "nofile" THEN Raised(e1, 0, "auth")
        ELSE IF x.mint # "ok" THEN Raised(e1, 1, "auth")
        ELSE Returned(Cred("oauth", n), EmptyDict, EmptyDict, NoConn, e1, 1)

\* _build_vertex_headers with the early return of the static-key branch removed.
BuildVertexHeadersAlwaysMint(e, n, x) ==
    LET m == MintVertexTokenNow(e, n, x)
    IN  IF m.raised THEN m
        ELSE Returned(m.token,
                      IF e.vertexApiKey THEN DictOf(RestKeyNames, Bare(StaticKey))
                      ELSE DictOf({"X-Goog-Vertex-Api-Key"}, Bare(m.token)),
                      IF e.vertexApiKey THEN DictOf(GrpcKeyNames, Bare(StaticKey))
                      ELSE DictOf({"x-goog-vertex-api-key"}, Bare(m.token)),
                      NoConn, m.env, m.minted)

\* _build_vertex_headers
BuildVertexHeaders(e, n, x) ==
    IF e.vertexApiKey
    THEN Returned(NoCred, DictOf(RestKeyNames, Bare(StaticKey)),
                  DictOf(GrpcKeyNames, Bare(StaticKey)), NoConn, e, 0)
    ELSE LET m == MintVertexTokenNow(e, n, x)
         IN  IF m.raised THEN m
             ELSE Returned(m.token,
                           Update(DictOf({"X-Goog-Vertex-Api-Key"}, Bare(m.token)),
                                  DictOf({"Authorization"}, Bearer(m.token))),
                           Update(DictOf({"x-goog-vertex-api-key"}, Bare(m.token)),
                                  DictOf({"authorization"}, Bearer(m.token))),
                           NoConn, m.env, m.minted)

\* The best-effort injection both definitions end with: dict.update on the
\* session's metadata store when the session exposes one.
InjectGrpc(meta, add, shape) ==
    IF shape \in {"grpc_metadata", "_grpc_metadata"}
    THEN [meta |-> Update(meta, add), added |-> DOMAIN add]
    ELSE [meta |-> meta, added |-> {}]

\* _connect, first definition
OldConnect(e, n, x) ==
    IF GetWeaviateUrlRaises(e) \/ GetWeaviateApiKeyRaises(e)
    THEN Raised(e, 0, "config")
    ELSE LET h == BuildVertexHeaders(e, n, x)
         IN  IF h.raised THEN h
             ELSE IF ~x.session THEN Raised(h.env, h.minted, "session")
             ELSE LET j == InjectGrpc(SessionMetadata, h.grpc, x.shape)
                  IN  Returned(h.token, h.rest, h.grpc,
                               [open |-> TRUE, rest |-> h.rest, meta |-> j.meta,
                                base |-> SessionMetadata, added |-> j.added,
                                def |-> 1],
                               h.env, h.minted)

\* The REST headers of the second definition, lines 509-538; every failure of
\* the token branch is swallowed.
NewRestHeaders(e, n, x) ==
    IF e.vertexApiKey
    THEN Returned(NoCred, DictOf(RestKeyNames, Bare(StaticKey)), EmptyDict,
                  NoConn, e, 0)
    ELSE LET mustWrite == e.gacJson /\ e.gac = "unset"
             e1 == IF mustWrite /\ x.write THEN [e EXCEPT !.gac = "file"] ELSE e
         IN  IF mustWrite /\ ~x.write
             THEN Returned(NoCred, EmptyDict, EmptyDict, NoConn, e, 0)
             ELSE IF e1.gac = "unset" \/ e1.gac = "nofile"
             THEN Returned(NoCred, EmptyDict, EmptyDict, NoConn, e1, 0)
             ELSE IF x.mint # "ok"
             THEN Returned(NoCred, EmptyDict, EmptyDict, NoConn, e1, 1)
             ELSE Returned(Cred("oauth", n),
                           DictOf({"X-Goog-Vertex-Api-Key"}, Bare(Cred("oauth", n))),
                           EmptyDict, NoConn, e1, 1)

\* grpc_meta_add of the second definition, lines 548-555.
NewGrpcMetaAdd(e, rest) ==
    IF e.vertexApiKey THEN DictOf(GrpcKeyNames, Bare(StaticKey))
    ELSE IF Get(rest, "X-Goog-Vertex-Api-Key") # Bare(NoCred)
         THEN DictOf({"x-goog-vertex-api-key"}, Get(rest, "X-Goog-Vertex-Api-Key"))
         ELSE EmptyDict

\* _connect, second definition
NewConnect(e, n, x) ==
    IF GetWeaviateUrlRaises(e) \/ GetWeaviateApiKeyRaises(e)
    THEN Raised(e, 0, "config")
    ELSE LET h == NewRestHeaders(e, n, x)
         IN  IF ~x.session THEN Raised(h.env, h.minted, "session")
             ELSE LET add == NewGrpcMetaAdd(e, h.rest)
                      j == InjectGrpc(SessionMetadata, add, x.shape)
                  IN  Returned(h.token, h.rest, add,
                               [open |-> TRUE, rest |-> h.rest, meta |-> j.meta,
                                base |-> SessionMetadata, added |-> j.added,
                                def |-> 2],
                               h.env, h.minted)

\* The definition a call of the global name _connect runs.
Connect(d, e, n, x) == IF d = 2 THEN NewConnect(e, n, x) ELSE OldConnect(e, n, x)

----------------------------------------------------------------------------
(* Module load and the refresher *)

\* Seconds left until creds.expiry when the loop reads the clock.
Remainings == {r \in 0..MaxRemaining : r % 300 = 0}

NoLoop == [pc |-> "none", sleep_s |-> 0, fails |-> 0, known |-> FALSE, rem |-> 0]

\* lines 477-482: the time the loop sleeps after a successful mint, given
\* whether creds.expiry is set and the seconds left until it.
SleepAfterMint(known, rem) ==
    IF known
    THEN LET delta == rem - SafetyMargin
         IN  IF delta > FloorDelta THEN delta ELSE DefaultSleep
    ELSE DefaultSleep

\* lines 472-475: the dict the refresher publishes for a token.
PublishedHeaders(tok) ==
    Update(DictOf({"X-Goog-Vertex-Api-Key"}, Bare(tok)),
           DictOf({"Authorization"}, Bearer(tok)))

Running(c) == loop[c].pc \in {"mint", "sleep"}

\* python serve.py: line 441, mcp.run, serves until the process ends; the
\* lines after it have not run while tools are served.
LoadMain ==
    /\ runMode = "main" /\ loadPc = "boot"
    /\ loadPc' = "serving"
    /\ UNCHANGED <<runMode, env, connectDef, started, vertexHeaders, starter,
                   loop, refreshGen, inv, mintCalls, openConns>>

\* Loaded as a module: line 441 is skipped and line 500 calls the starter.
LoadImport ==
    /\ runMode = "import" /\ loadPc = "boot"
    /\ loadPc' = "starting"
    /\ starter' = [starter EXCEPT ![LoadCaller] = "call"]
    /\ UNCHANGED <<runMode, env, connectDef, started, vertexHeaders, loop,
                   refreshGen, inv, mintCalls, openConns>>

\* lines 503-504: the name _connect is rebound once line 500 has returned.
LoadPatch ==
    /\ loadPc = "starting" /\ starter[LoadCaller] = "ret"
    /\ loadPc' = "serving"
    /\ connectDef' = 2
    /\ UNCHANGED <<runMode, env, started, vertexHeaders, starter, loop,
                   refreshGen, inv, mintCalls, openConns>>

\* Another thread of the loaded module calls the starter.
StarterCall(c) ==
    /\ c # LoadCaller
    /\ runMode = "import" /\ loadPc \in {"starting", "serving"}
    /\ starter[c] \in {"idle", "ret"}
    /\ starter' = [starter EXCEPT ![c] = "call"]
    /\ UNCHANGED <<runMode, env, loadPc, connectDef, started, vertexHeaders,
                   loop, refreshGen, inv, mintCalls, openConns>>

\* lines 490-494: the two early returns and _write_adc_from_json_env.  A
\* failing write raises out of the starter; at line 500 that ends the load.
StarterEnter(c, writeOk) ==
    /\ starter[c] = "call"
    /\ LET mustWrite == env.gacJson /\ env.gac = "unset"
       IN  IF started \/ ~OauthOptIn(env)
           THEN /\ starter' = [starter EXCEPT ![c] = "ret"]
                /\ UNCHANGED <<env, loadPc>>
           ELSE IF mustWrite /\ ~writeOk
           THEN /\ starter' = [starter EXCEPT ![c] = "raised"]
                /\ loadPc' = IF c = LoadCaller THEN "crashed" ELSE loadPc
                /\ UNCHANGED env
           ELSE /\ starter' = [starter EXCEPT ![c] = "spawn"]
                /\ env' = IF mustWrite THEN [env EXCEPT !.gac = "file"] ELSE env
                /\ UNCHANGED loadPc
    /\ UNCHANGED <<runMode, connectDef, started, vertexHeaders, loop,
                   refreshGen, inv, mintCalls, openConns>>

\* lines 496-497: Thread(target=_refresh_vertex_oauth_loop).start()
StarterSpawn(c) ==
    /\ starter[c] = "spawn"
    /\ starter' = [starter EXCEPT ![c] = "flag"]
    /\ loop' = [loop EXCEPT ![c] = [NoLoop EXCEPT !.pc = "init"]]
    /\ UNCHANGED <<runMode, env, loadPc, connectDef, started, vertexHeaders,
                   refreshGen, inv, mintCalls, openConns>>

\* line 498
StarterSetFlag(c) ==
    /\ starter[c] = "flag"
    /\ started' = TRUE
    /\ starter' = [starter EXCEPT ![c] = "ret"]
    /\ UNCHANGED <<runMode, env, loadPc, connectDef, vertexHeaders, loop,
                   refreshGen, inv, mintCalls, openConns>>

\* lines 462-466: the thread returns when the credential file is missing and
\* dies when loading it raises.
LoopInit(c, credsOk) ==
    /\ loop[c].pc = "init"
    /\ loop' = [loop EXCEPT ![c].pc =
                   IF env.gac # "file" THEN "disabled"
                   ELSE IF credsOk THEN "mint" ELSE "dead"]
    /\ UNCHANGED <<runMode, env, loadPc, connectDef, started, vertexHeaders,
                   starter, refreshGen, inv, mintCalls, openConns>>

\* A publish that writes the new token under X-Goog-Vertex-Api-Key and leaves
\* the bearer Authorization value built from the token before it.
LoopMintOkStaleBearer(c, known, rem) ==
    /\ loop[c].pc = "mint"
    /\ refreshGen < MaxGen
    /\ refreshGen' = refreshGen + 1
    /\ vertexHeaders' =
           Update(DictOf({"X-Goog-Vertex-Api-Key"},
                         Bare(Cred("refresh", refreshGen + 1))),
                  DictOf({"Authorization"}, Bearer(Cred("refresh", refreshGen))))
    /\ loop' = [loop EXCEPT ![c] =
                   [pc |-> "sleep", sleep_s |-> SleepAfterMint(known, rem),
                    fails |-> 0, known |-> known,
                    rem |-> IF known THEN rem ELSE 0]]
    /\ UNCHANGED <<runMode, env, loadPc, connectDef, started, starter, inv,
                   mintCalls, openConns>>

\* lines 470-483: a mint that succeeds publishes and sleeps.
LoopMintOk(c, known, rem) ==
    /\ loop[c].pc = "mint"
    /\ refreshGen < MaxGen
    /\ refreshGen' = refreshGen + 1
    /\ vertexHeaders' = PublishedHeaders(Cred("refresh", refreshGen + 1))
    /\ loop' = [loop EXCEPT ![c] =
                   [pc |-> "sleep", sleep_s |-> SleepAfterMint(known, rem),
                    fails |-> 0, known |-> known,
                    rem |-> IF known THEN rem ELSE 0]]
    /\ UNCHANGED <<runMode, env, loadPc, connectDef, started, starter, inv,
                   mintCalls, openConns>>

\* A failed mint that lets the exception end the thread.
LoopMintFailExits(c) ==
    /\ loop[c].pc = "mint"
    /\ loop[c].fails < MaxFails
    /\ loop' = [loop EXCEPT ![c].pc = "dead", ![c].fails = @ + 1]
    /\ UNCHANGED <<runMode, env, loadPc, connectDef, started, vertexHeaders,
                   starter, refreshGen, inv, mintCalls, openConns>>

\* lines 484-486: a mint that raises is logged and followed by a 60 s sleep.
LoopMintFail(c) ==
    /\ loop[c].pc = "mint"
    /\ loop[c].fails < MaxFails
    /\ loop' = [loop EXCEPT ![c] =
                   [pc |-> "sleep", sleep_s |-> BackoffSleep,
                    fails |-> loop[c].fails + 1, known |-> FALSE, rem |-> 0]]
    /\ UNCHANGED <<runMode, env, loadPc, connectDef, started, vertexHeaders,
                   starter, refreshGen, inv, mintCalls, openConns>>

\* time.sleep returns: back to the top of the while loop.
LoopWake(c) ==
    /\ loop[c].pc = "sleep"
    /\ loop' = [loop EXCEPT ![c].pc = "mint"]
    /\ UNCHANGED <<runMode, env, loadPc, connectDef, started, vertexHeaders,
                   starter, refreshGen, inv, mintCalls, openConns>>

----------------------------------------------------------------------------
(* Tool handlers *)

\* What a tool hands back: the kind of JSON value and, for an error value,
\* the pieces of the formatted message.
Result(kind, msg) == [kind |-> kind, msg |-> msg]
NoResult == Result("none", <<>>)

Idle == [pc |-> "idle", tool |-> "-", coll |-> NoColl, conn |-> NoConn,
         outcome |-> "none", exc |-> "none", result |-> NoResult,
         queries |-> 0, sawNone |-> FALSE]

\* The f-string each handler returns when collections.get gives None.
NotFoundResult(tool, coll) ==
    IF tool = "hybrid_search"
    THEN Result("error", <<"Collection '", coll, "' non trovata">>)
    ELSE Result("error", <<"Collection '", coll, "' not found">>)

\* The value a handler returns once its request and reshaping went through.
OkResult(tool) ==
    CASE tool = "check_connection" -> Result("ready", <<>>)
      [] tool = "list_collections" -> Result("names", <<>>)
      [] tool = "get_schema" -> Result("schema", <<>>)
      [] tool = "insert_image_vertex" -> Result("inserted", <<>>)
      [] OTHER -> Result("hits", <<>>)

\* get_schema swallows every exception of its request (lines 196-202).
RequestCanRaise(tool) == tool # "get_schema"

\* _vertex_embed with _ensure_gcp_adc: o is "unavailable" (raises before the
\* credential file is touched), "raise" (raises after it) or "ok".
VertexEmbed(e, o, writeOk) ==
    LET mustWrite == e.gacJson /\ e.gac = "unset"
    IN  IF o = "unavailable" \/ (mustWrite /\ ~writeOk)
        THEN [raised |-> TRUE, env |-> e]
        ELSE [raised |-> o # "ok",
              env |-> IF mustWrite THEN [e EXCEPT !.gac = "file"] ELSE e]

\* The MCP runtime dispatches a tool call to its handler.
Invoke(s, t, c) ==
    /\ loadPc = "serving"
    /\ inv[s].pc = "idle"
    /\ (t \in CollTools) = (c # NoColl)
    /\ inv' = [inv EXCEPT ![s] =
                  [Idle EXCEPT !.tool = t, !.coll = c,
                               !.pc = IF t \in LocalTools THEN "local"
                                      ELSE IF t \in EmbedTools THEN "embed"
                                      ELSE "connect"]]
    /\ UNCHANGED <<runMode, env, loadPc, connectDef, started, vertexHeaders,
                   starter, loop, refreshGen, mintCalls, openConns>>

\* get_config and diagnose_vertex: no connection, every failure swallowed.
RunLocal(s) ==
    /\ inv[s].pc = "local"
    /\ inv' = [inv EXCEPT ![s].pc = "done", ![s].outcome = "return",
                          ![s].result =
                              IF inv[s].tool = "get_config"
                              THEN Result("config", <<>>)
                              ELSE Result("info", <<>>)]
    /\ UNCHANGED <<runMode, env, loadPc, connectDef, started, vertexHeaders,
                   starter, loop, refreshGen, mintCalls, openConns>>

\* lines 338 and 354: the embedding is computed before the connection opens.
Embed(s, o, writeOk) ==
    /\ inv[s].pc = "embed"
    /\ LET r == VertexEmbed(env, o, writeOk)
       IN  /\ env' = r.env
           /\ inv' = IF r.raised
                     THEN [inv EXCEPT ![s].pc = "done", ![s].outcome = "raise",
                                      ![s].exc = "embed"]
                     ELSE [inv EXCEPT ![s].pc = "connect"]
    /\ UNCHANGED <<runMode, loadPc, connectDef, started, vertexHeaders,
                   starter, loop, refreshGen, mintCalls, openConns>>

\* client = _connect(), outside the handler's try block.
HandlerConnect(s, x) ==
    /\ inv[s].pc = "connect"
    /\ LET r == Connect(connectDef, env, mintCalls + 1, x)
       IN  /\ mintCalls + r.minted <= MaxMint
           /\ mintCalls' = mintCalls + r.minted
           /\ env' = r.env
           /\ IF r.raised
              THEN /\ inv' = [inv EXCEPT ![s].pc = "done",
                                         ![s].outcome = "raise",
                                         ![s].exc = r.why]
                   /\ UNCHANGED openConns
              ELSE /\ inv' = [inv EXCEPT ![s].conn = r.conn,
                                         ![s].pc = IF inv[s].tool \in CollTools
                                                   THEN "lookup" ELSE "request"]
                   /\ openConns' = openConns + 1
    /\ UNCHANGED <<runMode, loadPc, connectDef, started, vertexHeaders,
                   starter, loop, refreshGen>>

\* coll = client.collections.get(collection); the None branch.
HandlerLookup(s) ==
    /\ inv[s].pc = "lookup"
    /\ inv' = IF inv[s].coll \in ExistingCollections
              THEN [inv EXCEPT ![s].pc = "request"]
              ELSE [inv EXCEPT ![s].pc = "finally", ![s].outcome = "return",
                               ![s].sawNone = TRUE,
                               ![s].result =
                                   NotFoundResult(inv[s].tool, inv[s].coll)]
    /\ UNCHANGED <<runMode, env, loadPc, connectDef, started, vertexHeaders,
                   starter, loop, refreshGen, mintCalls, openConns>>

\* The one database request and the reshaping of its response; o is "ok",
\* "request" (the request raises) or "reshape" (the reshaping raises).
HandlerRequest(s, o) ==
    /\ inv[s].pc = "request"
    /\ inv' = IF o = "ok" \/ ~RequestCanRaise(inv[s].tool)
              THEN [inv EXCEPT ![s].pc = "finally", ![s].outcome = "return",
                               ![s].queries = @ + 1,
                               ![s].result = OkResult(inv[s].tool)]
              ELSE [inv EXCEPT ![s].pc = "finally", ![s].outcome = "raise",
                               ![s].queries = @ + 1, ![s].exc = o]
    /\ UNCHANGED <<runMode, env, loadPc, connectDef, started, vertexHeaders,
                   starter, loop, refreshGen, mintCalls, openConns>>

\* A finally block that closes the client only when the try block returned.
HandlerFinallyOnReturnOnly(s) ==
    /\ inv[s].pc = "finally"
    /\ inv' = [inv EXCEPT ![s].pc = "done",
                          ![s].conn.open = (inv[s].outcome = "raise")]
    /\ openConns' = IF inv[s].outcome = "raise" THEN openConns
                    ELSE openConns - 1
    /\ UNCHANGED <<runMode, env, loadPc, connectDef, started, vertexHeaders,
                   starter, loop, refreshGen, mintCalls>>

\* finally: client.close()
HandlerFinally(s) ==
    /\ inv[s].pc = "finally"
    /\ inv' = [inv EXCEPT ![s].pc = "done", ![s].conn.open = FALSE]
    /\ openConns' = openConns - 1
    /\ UNCHANGED <<runMode, env, loadPc, connectDef, started, vertexHeaders,
                   starter, loop, refreshGen, mintCalls>>

\* The result or the exception has gone back to the caller.
Complete(s) ==
    /\ inv[s].pc = "done"
    /\ inv' = [inv EXCEPT ![s] = [Idle EXCEPT !.conn =
                                      [NoConn EXCEPT !.open = inv[s].conn.open]]]
    /\ UNCHANGED <<runMode, env, loadPc, connectDef, started, vertexHeaders,
                   starter, loop, refreshGen, mintCalls, openConns>>

----------------------------------------------------------------------------
(* Specifications *)

Init ==
    /\ runMode \in {"main", "import"}
    /\ env \in Environments
    /\ loadPc = "boot"
    /\ connectDef = 1
    /\ started = FALSE
    /\ vertexHeaders = EmptyDict
    /\ starter = [c \in Callers |-> "idle"]
    /\ loop = [c \in Callers |-> NoLoop]
    /\ refreshGen = 0
    /\ inv = [s \in Slots |-> Idle]
    /\ mintCalls = 0
    /\ openConns = 0

Load == LoadMain \/ LoadImport \/ LoadPatch

Starter(c) ==
    \/ \E w \in BOOLEAN : StarterEnter(c, w)
    \/ StarterSpawn(c)
    \/ StarterSetFlag(c)

Refresher(c) ==
    \/ \E ok \in BOOLEAN : LoopInit(c, ok)
    \/ \E known \in BOOLEAN, rem \in Remainings : LoopMintOk(c, known, rem)
    \/ LoopMintFail(c)
    \/ LoopWake(c)

Handler(s) ==
    \/ \E t \in ToolNames, c \in CollectionNames \cup {NoColl} : Invoke(s, t, c)
    \/ RunLocal(s)
    \/ \E o \in {"unavailable", "raise", "ok"}, w \in BOOLEAN : Embed(s, o, w)
    \/ \E x \in Externals : HandlerConnect(s, x)
    \/ HandlerLookup(s)
    \/ \E o \in {"ok", "request", "reshape"} : HandlerRequest(s, o)
    \/ HandlerFinally(s)
    \/ Complete(s)

\* The program: module load (one call of the starter), the refresher thread
\* and the tool invocations.
Next ==
    \/ Load
    \/ Starter(LoadCaller)
    \/ Refresher(LoadCaller)
    \/ \E s \in Slots : Handler(s)

Spec == Init /\ [][Next]_vars

\* The starter under concurrent callers: module load and MaxCallers more
\* threads call it, and every loop thread they start runs.
NextStart ==
    \/ Load
    \/ \E c \in Callers \ {LoadCaller} : StarterCall(c)
    \/ \E c \in Callers : Starter(c)
    \/ \E c \in Callers : Refresher(c)

SpecStart == Init /\ [][NextStart]_vars

----------------------------------------------------------------------------
(* Claims *)

Max(a, b) == IF a >= b THEN a ELSE b

\* C1: every tool invocation ends by returning a result, never by raising,
\* and when a dependency failed the result carries an error field.
C1_ToolsReturnErrorResults ==
    \A s \in Slots :
        inv[s].pc = "done" =>
            /\ inv[s].outcome = "return"
            /\ (inv[s].exc # "none" => inv[s].result.kind = "error")

\* C2: with no static Vertex key, a connection a handler holds never had the
\* key "authorization" added to its RPC metadata, whose "authorization" entry
\* still carries the database access key.
C2_TokenPathKeepsAuthorization ==
    \A s \in Slots :
        (inv[s].conn.open /\ ~env.vertexApiKey) =>
            /\ "authorization" \notin inv[s].conn.added
            /\ Get(inv[s].conn.meta, "authorization")
                   = Get(inv[s].conn.base, "authorization")

\* C3: with a static Vertex key configured, composing headers and connecting
\* made no mint call, and every Vertex header of a connection, REST and RPC,
\* is the static key.
C3_StaticKeyNeverMints ==
    env.vertexApiKey =>
        /\ mintCalls = 0
        /\ \A s \in Slots :
               inv[s].conn.open =>
                   /\ DOMAIN inv[s].conn.rest = RestKeyNames
                   /\ \A k \in DOMAIN inv[s].conn.rest :
                          inv[s].conn.rest[k] = Bare(StaticKey)
                   /\ inv[s].conn.added \in {{}, GrpcKeyNames}
                   /\ \A k \in inv[s].conn.added :
                          inv[s].conn.meta[k] = Bare(StaticKey)

\* C3 witness: the second _connect holds a connection with the static key
\* injected while service-account credentials are configured too.
C3_Witness ==
    /\ env.vertexApiKey /\ env.gac = "file"
    /\ \E s \in Slots :
           /\ inv[s].conn.open /\ inv[s].conn.def = 2
           /\ inv[s].conn.added = GrpcKeyNames

\* C4: an invocation that is not running holds no open connection, and the
\* sessions open are exactly the ones running handlers hold.
C4_ConnectionsClosedAtEnd ==
    /\ \A s \in Slots : inv[s].pc \in {"idle", "done"} => ~inv[s].conn.open
    /\ openConns = Cardinality({s \in Slots : inv[s].conn.open})
    /\ (\A s \in Slots : inv[s].pc \in {"idle", "done"}) => openConns = 0

\* C4 witness: a handler whose request raised after its connection was opened
\* has ended.
C4_Witness ==
    \E s \in Slots :
        /\ inv[s].pc = "done" /\ inv[s].outcome = "raise"
        /\ inv[s].exc \in {"request", "reshape"}
        /\ inv[s].conn.def # 0

\* C5: a handler that found its collection absent ends without raising, has
\* issued no request, and returns {"error": "Collection '<name>' not found"}.
C5_NotFoundResult ==
    \A s \in Slots :
        (inv[s].pc = "done" /\ inv[s].sawNone) =>
            /\ inv[s].outcome = "return"
            /\ inv[s].queries = 0
            /\ inv[s].result
                   = Result("error", <<"Collection '", inv[s].coll, "' not found">>)

\* C6: no tool invocation fails on credential, minting or header code.
C6_AuthFailuresNonFatal ==
    \A s \in Slots : ~(inv[s].outcome = "raise" /\ inv[s].exc = "auth")

\* C7: every connection a served invocation opens comes from the second
\* _connect definition.
C7_LaterConnectInEffect ==
    /\ loadPc = "serving" => connectDef = 2
    /\ \A s \in Slots : inv[s].conn.def # 1

\* C8: at most one refresh loop is running, and one runs only when the
\* opt-in flag is set and the credential file is there.
C8_AtMostOneLoop ==
    /\ Cardinality({c \in Callers : Running(c)}) <= 1
    /\ \A c \in Callers : Running(c) => (OauthOptIn(env) /\ env.gac = "file")

\* C9: after a successful mint the loop sleeps max(300, E - T - 300) seconds
\* when the expiry is known and 3300 seconds when it is not.
C9_SleepHasFloor ==
    \A c \in Callers :
        (loop[c].pc = "sleep" /\ loop[c].fails = 0) =>
            loop[c].sleep_s = IF loop[c].known
                              THEN Max(FloorDelta, loop[c].rem - SafetyMargin)
                              ELSE DefaultSleep

\* C10: a running loop stays running, and a failed mint leads to a 60 s
\* sleep with the published headers and every tool invocation untouched.
C10_MintFailureKeepsLoop ==
    [][\A c \in Callers :
          /\ Running(c) => loop'[c].pc \in {"mint", "sleep"}
          /\ (loop[c].pc = "mint" /\ loop'[c].fails > loop[c].fails) =>
                 /\ loop'[c].pc = "sleep"
                 /\ loop'[c].sleep_s = BackoffSleep
                 /\ vertexHeaders' = vertexHeaders
                 /\ inv' = inv]_vars

\* C10 witness: three mints in a row have failed after one was published, and
\* the loop is about to mint again.
C10_Witness ==
    \E c \in Callers :
        /\ loop[c].pc = "mint" /\ loop[c].fails >= 3
        /\ vertexHeaders # EmptyDict

\* C11: while a refresh loop runs and has published a Header Set, a
\* connection is created with the headers _VERTEX_HEADERS holds at that
\* moment, and keeps the headers it was created with for as long as it is
\* open.
C11_ConnectionHasPublishedHeaders ==
    [][\A s \in Slots :
          /\ (inv[s].pc = "connect" /\ inv'[s].conn.open
                  /\ vertexHeaders # EmptyDict
                  /\ \E c \in Callers : Running(c)) =>
                 inv'[s].conn.rest = vertexHeaders
          /\ (inv[s].conn.open /\ inv'[s].conn.open) =>
                 inv'[s].conn.rest = inv[s].conn.rest]_vars

\* A Header Set whose two values, the Vertex key and the bearer
\* Authorization, come from one and the same token.
FromOneToken(d) ==
    /\ DOMAIN d = {"X-Goog-Vertex-Api-Key", "Authorization"}
    /\ d["X-Goog-Vertex-Api-Key"].scheme = ""
    /\ d["Authorization"].scheme = "Bearer"
    /\ d["X-Goog-Vertex-Api-Key"].cred = d["Authorization"].cred

\* C12: whenever _VERTEX_HEADERS is read it is empty or a set built from one
\* token, and the only step that changes it is a refresh loop's successful
\* mint, which replaces it whole by the set of a new token.
C12_PublishIsAtomic ==
    /\ [](vertexHeaders = EmptyDict \/ FromOneToken(vertexHeaders))
    /\ [][vertexHeaders' # vertexHeaders =>
              /\ \E c \in Callers :
                     /\ loop[c].pc = "mint" /\ loop'[c].pc = "sleep"
                     /\ loop'[c].fails = 0
              /\ FromOneToken(vertexHeaders')
              /\ inv' = inv]_vars

\* C12 witness: a handler holds an open connection while the shared set is
\* the one of the second token, the first having been replaced.
C12_Witness ==
    /\ refreshGen >= 2
    /\ FromOneToken(vertexHeaders)
    /\ vertexHeaders["Authorization"].cred = Cred("refresh", 2)
    /\ \E s \in Slots : inv[s].conn.open

====
